---- MODULE Spec2Model ----
(***************************************************************************)
(* Model of slam::LoopClosing (src/src/loop_closing.cpp): the producer/    *)
(* consumer cluster queue, the run() polling loop and the per-cluster      *)
(* pipeline processNewCluster -> searchInNeigborhood -> searchByHash.      *)
(*                                                                         *)
(* Every access to cluster_queue_ is made under mutex_cluster_queue_, so   *)
(* each critical section is one atomic action.  Library calls (boost       *)
(* filesystem, cv::FileStorage) return normally with either outcome.  An   *)
(* access past the end of hash_table_ is undefined behaviour: it yields    *)
(* an arbitrary signature or faults.                                       *)
(***************************************************************************)
EXTENDS Integers, Sequences, FiniteSets, TLC

\* ------------------------------------------------------------------ bounds
\* Number of addClusterToQueue calls in a behaviour.
MaxClusters == 2
\* LC_NEIGHBORS is a compile-time constant of the header; it ranges over 0..MaxNeighbors.
MaxNeighbors == 1
\* Cluster ids handed to addClusterToQueue range over 0..MaxId.
MaxId == 2
\* Lengths of the hash tables and of the loop-closure record lists that the
\* getCandidates harness draws.
MaxTable == 3
MaxRecords == 1
\* Keypoints, descriptor rows and 3-D points of a well-formed cluster.
MaxRows == 2
\* Longest hash table of the ranking harness.
MaxRank == 7

\* ------------------------------------------------------- program constants
\* uint max_size = 5
MaxCandidates == 5
\* Modulus of the unsigned arithmetic of hash_table_.size()-LC_NEIGHBORS-1
\* (stands for 2^64, which TLC's 32-bit integers cannot hold).
SizeModulus == 1073741824

\* ------------------------------------------------------------------ values
ClusterIds == 0..MaxId
Frames == {1, 2}
Sifts == {1, 2}
\* kp, rows and points are the sizes of getKp(), getOrb() and getPoints().
Cluster == [id : ClusterIds, frame_id : Frames, sift : Sifts,
            kp : {MaxRows}, rows : {MaxRows}, points : {MaxRows}]
\* Clusters of any shape: keypoints or 3-D points may be one short of the rows.
AnyCluster == [id : ClusterIds, frame_id : Frames, sift : Sifts,
               kp : {MaxRows - 1, MaxRows}, rows : {MaxRows},
               points : {MaxRows - 1, MaxRows}]
\* A default-constructed Cluster (readCluster's result for a missing file).
DefaultCluster == [id |-> -1, frame_id |-> -1, sift |-> 0, kp |-> 0, rows |-> 0, points |-> 0]
NoFile == [id |-> -2, frame_id |-> -2, sift |-> 0, kp |-> 0, rows |-> 0, points |-> 0]
\* No solvePnPRansac call yet.
NoEstimate == [points |-> -1, bad_index |-> FALSE]
Signatures == -1..1
Pair(a, b) == [first |-> a, second |-> b]
Stages == {"ingest", "neigh", "hash"}

VARIABLES
  pc,                  \* position of the run() thread
  LC_NEIGHBORS,        \* the header's constant
  cluster_queue_,      \* list<Cluster>, guarded by mutex_cluster_queue_
  c_cluster_,          \* the cluster being processed
  hash_,               \* the hash descriptor engine
  hash_table_,         \* vector< pair<int, vector<float> > >
  lc_found_,           \* vector< pair<int,int> >
  store,               \* execution_dir_: cluster id -> <id>.yml
  error_log,           \* ROS_ERROR messages
  write_ok,            \* whether the last <id>.yml write succeeded
  hash_matching,       \* searchByHash's candidate list
  visited,             \* searchInNeigborhood's walk (neighbor by neighbor)
  processed_neighbors, \* searchInNeigborhood's counter
  edges,               \* Graph::addEdge calls
  enqueued,            \* history: every cluster pushed, in push order
  stages,              \* history: stage -> number of the last cluster it ran on
  mutex_cluster_queue_, \* holder of the queue mutex across steps ("free" or "run")
  matched,             \* searchInNeigborhood's pool handed to solvePnPRansac
  hash_use             \* history: calls of hash_.init, uses before initialization

vars == <<pc, LC_NEIGHBORS, cluster_queue_, c_cluster_, hash_, hash_table_,
          lc_found_, store, error_log, write_ok, hash_matching, visited,
          processed_neighbors, edges, enqueued, stages, mutex_cluster_queue_,
          matched, hash_use>>

\* ------------------------------------------------- hash descriptor engine
isInitialized(h) == h.initialized
init(h, sift) == [initialized |-> TRUE, basis |-> sift]
getHash(h, sift) == sift - h.basis
Abs(x) == IF x < 0 THEN -x ELSE x
match(hq, ht) == 2 - Abs(hq - ht)
\* if (!hash_.isInitialized())
NeedsInitAlways(h) == TRUE
NeedsInit(h) == ~isInitialized(h)

\* ------------------------------------------------------------ cluster store
EmptyStore == [i \in ClusterIds |-> NoFile]
readCluster(st, id) == IF st[id] = NoFile THEN DefaultCluster ELSE st[id]

\* ------------------------------------------------------------- the queue
PopBack(q) == [cluster |-> q[Len(q)], rest |-> SubSeq(q, 1, Len(q) - 1)]
PopFront(q) == [cluster |-> Head(q), rest |-> Tail(q)]
\* return(!cluster_queue_.empty())
NewClusterInQueueAlways(q) == TRUE
NewClusterInQueue(q) == q # <<>>
\* hash_table_.push_back
push_over_last(table, entry) ==
  IF table = <<>> THEN <<entry>> ELSE [table EXCEPT ![Len(table)] = entry]
push_back(table, entry) == Append(table, entry)

\* --------------------------------------------------- searchInNeigborhood
FrameDiffersAlways(neighbor, current_frame_id) == TRUE
FrameDiffers(neighbor, current_frame_id) == neighbor.frame_id # current_frame_id

\* while (processed_neighbors < LC_NEIGHBORS && neighbor_id >= 0)
KeepWalkingOneMore(processed, neighbor_id, lcn) == processed <= lcn /\ neighbor_id >= 0
KeepWalking(processed, neighbor_id, lcn) == processed < lcn /\ neighbor_id >= 0

RECURSIVE Walk(_, _, _, _, _, _)
Walk(neighbor_id, processed, seen, current_frame_id, st, lcn) ==
  IF ~KeepWalking(processed, neighbor_id, lcn)
  THEN [processed_neighbors |-> processed, visited |-> seen]
  ELSE LET neighbor == readCluster(st, neighbor_id)
           differs == FrameDiffers(neighbor, current_frame_id)
           step == [id |-> neighbor_id, frame_id |-> neighbor.frame_id,
                    stored |-> st[neighbor_id] # NoFile, matched |-> differs]
       IN Walk(neighbor_id - 1, IF differs THEN processed + 1 ELSE processed,
               Append(seen, step), current_frame_id, st, lcn)

\* ----------------------------------------------------------- getCandidates
NotEnoughNeighbors(size, lcn) == size <= lcn

NoCandidatesFirstOnly(cluster_id, lc) ==
  {lc[i].second : i \in {j \in 1..Len(lc) : lc[j].first = cluster_id}}
NoCandidates(cluster_id, lc) ==
  {lc[i].second : i \in {j \in 1..Len(lc) : lc[j].first = cluster_id}}
    \cup {lc[i].first : i \in {j \in 1..Len(lc) : lc[j].second = cluster_id}}

Unsigned(x) == x % SizeModulus
LoopBoundNoWindow(size, lcn) == Unsigned(size - lcn)
LoopBoundOffByOne(size, lcn) == Unsigned(size - lcn)
LoopBound(size, lcn) == Unsigned(size - lcn - 1)

IsItselfNever(entry, cluster_id) == FALSE
IsItself(entry, cluster_id) == entry.first = cluster_id

Min(a, b) == IF a < b THEN a ELSE b

AllMatchings(cluster_id, ht, lc, lcn, hash_q) ==
  LET scanned == SubSeq(ht, 1, Min(Len(ht), LoopBound(Len(ht), lcn)))
      no_candidates == NoCandidates(cluster_id, lc)
      Keep(entry) == ~IsItself(entry, cluster_id) /\ entry.first \notin no_candidates
      kept == SelectSeq(scanned, Keep)
  IN [i \in 1..Len(kept) |-> Pair(kept[i].first, match(hash_q, kept[i].second))]

sortByMatching(d1, d2) ==
  \/ d1.second > d2.second
  \/ d1.second = d2.second /\ d1.first < d2.first

RECURSIVE Insert(_, _)
Insert(s, e) ==
  IF s = <<>> THEN <<e>>
  ELSE IF sortByMatching(e, Head(s)) THEN <<e>> \o s
  ELSE <<Head(s)>> \o Insert(Tail(s), e)

RECURSIVE Sort(_)
Sort(s) == IF s = <<>> THEN <<>> ELSE Insert(Sort(Tail(s)), Head(s))

\* Retrieve the best n matches
BestNAndOneMore(sorted) == SubSeq(sorted, 1, Min(MaxCandidates + 1, Len(sorted)))
BestN(sorted) == SubSeq(sorted, 1, Min(MaxCandidates, Len(sorted)))

getCandidates(cluster_id, ht, lc, lcn, hash_q) ==
  IF NotEnoughNeighbors(Len(ht), lcn) THEN <<>>
  ELSE BestN(Sort(AllMatchings(cluster_id, ht, lc, lcn, hash_q)))

\* Whether the call evaluates hash_.match at all.
Scores(cluster_id, ht, lc, lcn) ==
  ~NotEnoughNeighbors(Len(ht), lcn) /\ AllMatchings(cluster_id, ht, lc, lcn, 0) # <<>>

\* The read hash_table_[cluster_id] is made only past the size check.
QueryRead(cluster_id, ht, lcn) == ~NotEnoughNeighbors(Len(ht), lcn)
QueryInBounds(cluster_id, ht) == cluster_id >= 0 /\ cluster_id < Len(ht)

\* ------------------------------- searchInNeigborhood: the pooled matches
\* Tools::ratioMatching: clusters of one appearance match row by row.
ratioMatching(c, n) == IF c.sift = n.sift THEN Min(c.rows, n.rows) ELSE 0
\* round(100.0 * matches / min(size_c, size_n)) > 50
HighMatching(matches, size_c, size_n) ==
  LET smaller == Min(size_c, size_n)
  IN smaller > 0 /\ 200 * matches >= 101 * smaller
\* The correspondences a neighbour adds to matched_kp / matched_points.
Contribution(c, n) ==
  LET matches == ratioMatching(c, n)
  IN IF HighMatching(matches, c.rows, n.rows) THEN matches ELSE 0
\* kp[matches[i].queryIdx] or neighbor_points[matches[i].trainIdx] past the end.
BadIndex(c, n) == Contribution(c, n) > c.kp \/ Contribution(c, n) > n.points

RECURSIVE Pooled(_, _, _)
Pooled(c, seen, st) ==
  IF seen = <<>> THEN [points |-> 0, bad_index |-> FALSE]
  ELSE LET rest == Pooled(c, Tail(seen), st)
           n == readCluster(st, Head(seen).id)
       IN IF Head(seen).matched
          THEN [points |-> rest.points + Contribution(c, n),
                bad_index |-> rest.bad_index \/ BadIndex(c, n)]
          ELSE rest

\* ------------------------------------------------------------------- Init
Init ==
  /\ pc = "init"
  /\ LC_NEIGHBORS \in 0..MaxNeighbors
  /\ cluster_queue_ = <<>>
  /\ c_cluster_ = DefaultCluster
  /\ hash_ = [initialized |-> FALSE, basis |-> 0]
  /\ hash_table_ = <<>>
  /\ lc_found_ = <<>>
  /\ store = EmptyStore
  /\ error_log = {}
  /\ write_ok = TRUE
  /\ hash_matching = <<>>
  /\ visited = <<>>
  /\ processed_neighbors = 0
  /\ edges = <<>>
  /\ enqueued = <<>>
  /\ stages = [s \in Stages |-> 0]
  /\ mutex_cluster_queue_ = "free"
  /\ matched = NoEstimate
  /\ hash_use = [inits |-> 0, uninitialized |-> FALSE]

\* ---------------------------------------------------------------- actions
\* The push of addClusterToQueue, under the queue mutex.
Push(cluster) ==
  /\ mutex_cluster_queue_ = "free"
  /\ cluster_queue_' = Append(cluster_queue_, cluster)
  /\ enqueued' = Append(enqueued, cluster)
  /\ UNCHANGED <<pc, LC_NEIGHBORS, c_cluster_, hash_, hash_table_, lc_found_,
                 store, error_log, write_ok, hash_matching, visited,
                 processed_neighbors, edges, stages, mutex_cluster_queue_,
                 matched, hash_use>>

\* addClusterToQueue(cluster), from any thread.
addClusterToQueue(cluster) ==
  /\ Len(enqueued) < MaxClusters
  /\ Push(cluster)

\* addClusterToQueue from a single front-end that numbers its clusters 0, 1, ...
addClusterInOrder(cluster) ==
  /\ cluster.id = Len(enqueued)
  /\ Push(cluster)

\* addClusterToQueue from the same front-end, with clusters of any shape.
addClusterAnyShape(cluster) ==
  /\ Len(enqueued) < MaxClusters
  /\ cluster.id = Len(enqueued)
  /\ Push(cluster)

\* run(), before the loop: the directory is removed and created again.
runInit ==
  /\ pc = "init"
  /\ \E created \in BOOLEAN :
       error_log' = IF created THEN error_log ELSE error_log \cup {"create_directory"}
  /\ store' = EmptyStore
  /\ pc' = "loop"
  /\ UNCHANGED <<LC_NEIGHBORS, cluster_queue_, c_cluster_, hash_, hash_table_,
                 lc_found_, write_ok, hash_matching, visited,
                 processed_neighbors, edges, enqueued, stages,
                 mutex_cluster_queue_, matched, hash_use>>

\* while(ros::ok()) fails: run() returns.
runExit ==
  /\ pc = "loop"
  /\ pc' = "done"
  /\ UNCHANGED <<LC_NEIGHBORS, cluster_queue_, c_cluster_, hash_, hash_table_,
                 lc_found_, store, error_log, write_ok, hash_matching, visited,
                 processed_neighbors, edges, enqueued, stages,
                 mutex_cluster_queue_, matched, hash_use>>

\* if(checkNewClusterInQueue())
checkNewClusterInQueue ==
  /\ pc = "loop"
  /\ mutex_cluster_queue_ = "free"
  /\ pc' = IF NewClusterInQueue(cluster_queue_) THEN "process" ELSE "publish"
  /\ UNCHANGED <<LC_NEIGHBORS, cluster_queue_, c_cluster_, hash_, hash_table_,
                 lc_found_, store, error_log, write_ok, hash_matching, visited,
                 processed_neighbors, edges, enqueued, stages,
                 mutex_cluster_queue_, matched, hash_use>>

processNewCluster ==
  /\ pc = "process"
  /\ mutex_cluster_queue_ = "free"
  /\ IF cluster_queue_ = <<>>
     THEN \* front() of an empty list
          /\ pc' = "crashed"
          /\ UNCHANGED <<cluster_queue_, c_cluster_, hash_, hash_table_, store,
                         write_ok, stages, hash_use>>
     ELSE LET got == PopFront(cluster_queue_)
              c == got.cluster
              h == IF NeedsInit(hash_) THEN init(hash_, c.sift) ELSE hash_
          IN /\ cluster_queue_' = got.rest
             /\ c_cluster_' = c
             /\ hash_' = h
             /\ hash_use' = [inits |-> hash_use.inits + (IF NeedsInit(hash_) THEN 1 ELSE 0),
                             uninitialized |-> hash_use.uninitialized \/ ~isInitialized(h)]
             /\ hash_table_' = push_back(hash_table_, Pair(c.id, getHash(h, c.sift)))
             /\ \E written \in BOOLEAN :
                  /\ write_ok' = written
                  /\ store' = IF written THEN [store EXCEPT ![c.id] = c] ELSE store
             /\ stages' = [stages EXCEPT !["ingest"] = Len(hash_table_) + 1]
             /\ pc' = "neigh"
  /\ UNCHANGED <<LC_NEIGHBORS, lc_found_, error_log, hash_matching, visited,
                 processed_neighbors, edges, enqueued, mutex_cluster_queue_,
                 matched>>

\* The walk, then solvePnPRansac on the pooled matches; the estimate only
\* feeds a log line.  An index past the end of kp or neighbor_points is
\* undefined behaviour: here the read yields some point and the walk goes on.
searchInNeigborhood ==
  /\ pc = "neigh"
  /\ LET w == Walk(c_cluster_.id - 1, 0, <<>>, c_cluster_.frame_id, store, LC_NEIGHBORS)
     IN /\ visited' = w.visited
        /\ processed_neighbors' = w.processed_neighbors
        /\ matched' = Pooled(c_cluster_, w.visited, store)
  /\ stages' = [stages EXCEPT !["neigh"] = Len(hash_table_)]
  /\ pc' = "hash"
  /\ UNCHANGED <<LC_NEIGHBORS, cluster_queue_, c_cluster_, hash_, hash_table_,
                 lc_found_, store, error_log, write_ok, hash_matching, edges,
                 enqueued, mutex_cluster_queue_, hash_use>>

\* The same read, when the access faults: the thread dies.
searchInNeigborhoodFault ==
  /\ pc = "neigh"
  /\ LET w == Walk(c_cluster_.id - 1, 0, <<>>, c_cluster_.frame_id, store, LC_NEIGHBORS)
     IN /\ Pooled(c_cluster_, w.visited, store).bad_index
        /\ matched' = [points |-> -1, bad_index |-> TRUE]
  /\ pc' = "crashed"
  /\ UNCHANGED <<LC_NEIGHBORS, cluster_queue_, c_cluster_, hash_, hash_table_,
                 lc_found_, store, error_log, write_ok, hash_matching, visited,
                 processed_neighbors, edges, enqueued, stages,
                 mutex_cluster_queue_, hash_use>>

\* searchByHash: hash_table_[cluster_id] is read in bounds, or not read at all.
searchByHash ==
  /\ pc = "hash"
  /\ QueryRead(c_cluster_.id, hash_table_, LC_NEIGHBORS)
       => QueryInBounds(c_cluster_.id, hash_table_)
  /\ LET hash_q == IF QueryRead(c_cluster_.id, hash_table_, LC_NEIGHBORS)
                   THEN hash_table_[c_cluster_.id + 1].second ELSE 0
     IN hash_matching' = getCandidates(c_cluster_.id, hash_table_, lc_found_,
                                       LC_NEIGHBORS, hash_q)
  /\ hash_use' = [hash_use EXCEPT !.uninitialized =
                    @ \/ (Scores(c_cluster_.id, hash_table_, lc_found_, LC_NEIGHBORS)
                            /\ ~isInitialized(hash_))]
  /\ stages' = [stages EXCEPT !["hash"] = Len(hash_table_)]
  /\ pc' = "publish"
  /\ UNCHANGED <<LC_NEIGHBORS, cluster_queue_, c_cluster_, hash_, hash_table_,
                 lc_found_, store, error_log, write_ok, visited,
                 processed_neighbors, edges, enqueued, mutex_cluster_queue_,
                 matched>>

\* searchByHash: hash_table_[cluster_id] is read past the end of the vector
\* (undefined behaviour): the query signature is whatever the memory holds.
searchByHashOutOfBounds ==
  /\ pc = "hash"
  /\ QueryRead(c_cluster_.id, hash_table_, LC_NEIGHBORS)
  /\ ~QueryInBounds(c_cluster_.id, hash_table_)
  /\ \E hash_q \in Signatures :
       hash_matching' = getCandidates(c_cluster_.id, hash_table_, lc_found_,
                                      LC_NEIGHBORS, hash_q)
  /\ hash_use' = [hash_use EXCEPT !.uninitialized =
                    @ \/ (Scores(c_cluster_.id, hash_table_, lc_found_, LC_NEIGHBORS)
                            /\ ~isInitialized(hash_))]
  /\ stages' = [stages EXCEPT !["hash"] = Len(hash_table_)]
  /\ pc' = "publish"
  /\ UNCHANGED <<LC_NEIGHBORS, cluster_queue_, c_cluster_, hash_, hash_table_,
                 lc_found_, store, error_log, write_ok, visited,
                 processed_neighbors, edges, enqueued, mutex_cluster_queue_,
                 matched>>

\* The same read, when the access faults: the thread dies.
searchByHashFault ==
  /\ pc = "hash"
  /\ QueryRead(c_cluster_.id, hash_table_, LC_NEIGHBORS)
  /\ ~QueryInBounds(c_cluster_.id, hash_table_)
  /\ pc' = "crashed"
  /\ UNCHANGED <<LC_NEIGHBORS, cluster_queue_, c_cluster_, hash_, hash_table_,
                 lc_found_, store, error_log, write_ok, hash_matching, visited,
                 processed_neighbors, edges, enqueued, stages,
                 mutex_cluster_queue_, matched, hash_use>>

\* The publications of one loop iteration: lc_found_.size() if subscribed; then,
\* if loop_closing_queue is subscribed, the queue mutex is taken and
\* cluster_queue_.size() read; otherwise r.sleep().
publish ==
  /\ pc = "publish"
  /\ mutex_cluster_queue_ = "free"
  /\ \E subscribed \in BOOLEAN :
       IF subscribed
       THEN mutex_cluster_queue_' = "run" /\ pc' = "pub_queue"
       ELSE mutex_cluster_queue_' = "free" /\ pc' = "loop"
  /\ UNCHANGED <<LC_NEIGHBORS, cluster_queue_, c_cluster_, hash_, hash_table_,
                 lc_found_, store, error_log, write_ok, hash_matching, visited,
                 processed_neighbors, edges, enqueued, stages, matched, hash_use>>

\* pub_queue_.publish(msg) inside the scoped lock, the unlock, then r.sleep().
publishQueue ==
  /\ pc = "pub_queue"
  /\ mutex_cluster_queue_' = "free"
  /\ pc' = "loop"
  /\ UNCHANGED <<LC_NEIGHBORS, cluster_queue_, c_cluster_, hash_, hash_table_,
                 lc_found_, store, error_log, write_ok, hash_matching, visited,
                 processed_neighbors, edges, enqueued, stages, matched, hash_use>>

finalize ==
  /\ pc = "done"
  /\ store' = EmptyStore
  /\ pc' = "finalized"
  /\ UNCHANGED <<LC_NEIGHBORS, cluster_queue_, c_cluster_, hash_, hash_table_,
                 lc_found_, error_log, write_ok, hash_matching, visited,
                 processed_neighbors, edges, enqueued, stages,
                 mutex_cluster_queue_, matched, hash_use>>

Consumer ==
  \/ runInit
  \/ checkNewClusterInQueue
  \/ processNewCluster
  \/ searchInNeigborhood
  \/ searchByHash
  \/ searchByHashOutOfBounds
  \/ searchByHashFault
  \/ publish
  \/ publishQueue

Producer == \E cluster \in Cluster : addClusterToQueue(cluster)

Next ==
  \/ Producer
  \/ Consumer
  \/ runExit
  \/ finalize

Spec == Init /\ [][Next]_vars

\* ------------------------------------------------------- other specifications
\* run() kept scheduled and never shut down (ros::ok() stays true).
Running ==
  \/ Producer
  \/ Consumer

FairSpec == Init /\ [][Running]_vars /\ WF_vars(Consumer)

\* getCandidates as a function of its inputs: the call searchByHash makes, from
\* any hash table, any loop-closure record list and any cluster id.
RECURSIVE SeqsUpTo(_, _)
SeqsUpTo(S, n) ==
  IF n = 0 THEN {<<>>}
  ELSE LET shorter == SeqsUpTo(S, n - 1)
       IN shorter \cup {Append(q, e) : q \in {r \in shorter : Len(r) = n - 1}, e \in S}

TableEntries == {Pair(i, 0) : i \in ClusterIds}
Records == {Pair(a, b) : a \in ClusterIds, b \in ClusterIds}

InitCandidates ==
  /\ pc = "hash"
  /\ LC_NEIGHBORS \in 0..MaxNeighbors
  /\ cluster_queue_ = <<>>
  /\ c_cluster_ \in {c \in Cluster : c.frame_id = 1 /\ c.sift = 1}
  /\ hash_ = [initialized |-> TRUE, basis |-> 1]
  /\ hash_table_ \in SeqsUpTo(TableEntries, MaxTable)
  /\ lc_found_ \in SeqsUpTo(Records, MaxRecords)
  /\ store = EmptyStore
  /\ error_log = {}
  /\ write_ok = TRUE
  /\ hash_matching = <<>>
  /\ visited = <<>>
  /\ processed_neighbors = 0
  /\ edges = <<>>
  /\ enqueued = <<>>
  /\ stages = [s \in Stages |-> 0]
  /\ mutex_cluster_queue_ = "free"
  /\ matched = NoEstimate
  /\ hash_use = [inits |-> 1, uninitialized |-> FALSE]

Search ==
  \/ searchByHash
  \/ searchByHashOutOfBounds
  \/ searchByHashFault

CandSpec == InitCandidates /\ [][Search]_vars

\* ---------------------------------------- getCandidates on longer tables
\* Tables of up to MaxRank entries whose ids are their positions, with any
\* signatures; the current cluster is the newest entry.
RankTables ==
  UNION {{[k \in 1..n |-> Pair(k - 1, signature[k])] :
            signature \in [1..n -> Signatures]} : n \in 1..MaxRank}

InitRank ==
  /\ pc = "hash"
  /\ LC_NEIGHBORS \in 0..MaxNeighbors
  /\ cluster_queue_ = <<>>
  /\ hash_ = [initialized |-> TRUE, basis |-> 1]
  /\ hash_table_ \in RankTables
  /\ c_cluster_ = [id |-> Len(hash_table_) - 1, frame_id |-> 1, sift |-> 1,
                   kp |-> MaxRows, rows |-> MaxRows, points |-> MaxRows]
  /\ lc_found_ \in {<<>>, <<Pair(0, Len(hash_table_) - 1)>>}
  /\ store = EmptyStore
  /\ error_log = {}
  /\ write_ok = TRUE
  /\ hash_matching = <<>>
  /\ visited = <<>>
  /\ processed_neighbors = 0
  /\ edges = <<>>
  /\ enqueued = <<>>
  /\ stages = [s \in Stages |-> 0]
  /\ mutex_cluster_queue_ = "free"
  /\ matched = NoEstimate
  /\ hash_use = [inits |-> 1, uninitialized |-> FALSE]

RankSpec == InitRank /\ [][searchByHash]_vars

\* ------------------------------------- a front-end that numbers its clusters
\* Every cluster is enqueued once, with the next id; the table position of a
\* cluster is then its id, and hash_table_[cluster_id] is always in bounds.
InOrderConsumer ==
  \/ runInit
  \/ checkNewClusterInQueue
  \/ processNewCluster
  \/ searchInNeigborhood
  \/ searchByHash
  \/ publish
  \/ publishQueue

SeqNext ==
  \/ \E cluster \in Cluster : addClusterInOrder(cluster)
  \/ InOrderConsumer
  \/ runExit
  \/ finalize

SeqSpec == Init /\ [][SeqNext]_vars

\* The same front-end, handing over clusters of any shape.
ShapeNext ==
  \/ \E cluster \in AnyCluster : addClusterAnyShape(cluster)
  \/ InOrderConsumer
  \/ searchInNeigborhoodFault
  \/ runExit
  \/ finalize

ShapeSpec == Init /\ [][ShapeNext]_vars

\* ------------------------------------------------------------ shorthands
Current == Len(hash_table_)
\* The stage has run on the cluster that c_cluster_ holds.
NeighborhoodDone == stages["neigh"] = Current
HashSearchDone == stages["hash"] = Current
CandidateIds == {hash_matching[k].first : k \in 1..Len(hash_matching)}
Scanned == 1..Min(Len(hash_table_), LoopBound(Len(hash_table_), LC_NEIGHBORS))

\* ------------------------------------------------------------------ claims
\* C1: clusters are processed in the order they were enqueued, one at a time:
\* what was pushed is the processed clusters followed by the queue, c_cluster_
\* is the last cluster popped, and ingest, neighbourhood verification and
\* candidate search have all run on one cluster before the next pop.
C1_FifoOneAtATime ==
  /\ Len(enqueued) = Current + Len(cluster_queue_)
  /\ \A k \in 1..Len(cluster_queue_) : cluster_queue_[k] = enqueued[Current + k]
  /\ Current > 0 => c_cluster_ = enqueued[Current]
  /\ stages["ingest"] = Current
  /\ pc \in {"init", "loop", "process", "publish", "pub_queue", "done", "finalized"}
       => stages["neigh"] = Current /\ stages["hash"] = Current
  /\ pc = "neigh" => stages["neigh"] = Current - 1 /\ stages["hash"] = Current - 1
  /\ pc \in {"hash", "crashed"} => stages["neigh"] = Current /\ stages["hash"] = Current - 1

\* Two different clusters were pushed; the first went through the whole
\* pipeline while the second waited in the queue.
C1_Witness ==
  /\ pc = "publish"
  /\ Current = 1
  /\ Len(cluster_queue_) = 1
  /\ enqueued[1] # enqueued[2]

\* C2: every cluster passed to addClusterToQueue is eventually popped and
\* indexed in the hash table (the k-th push leads to a k-th table entry).
C2_EveryClusterIndexed ==
  \A k \in 1..MaxClusters : (Len(enqueued) >= k) ~> (Current >= k)

\* C3: the candidate list of the search made for c_cluster_ never contains
\* c_cluster_'s own id.
C3_NoSelfCandidate ==
  HashSearchDone => c_cluster_.id \notin CandidateIds

\* The search ran over a table whose scanned part holds an entry with the
\* current cluster's id.
C3_Witness ==
  /\ HashSearchDone
  /\ pc = "publish"
  /\ \E i \in Scanned : hash_table_[i].first = c_cluster_.id

\* C4: no candidate returned for cluster_id is paired with cluster_id in a
\* loop-closure record, whichever way round the record stores the pair.
C4_RecordedPairExcluded ==
  pc = "publish" =>
    \A r \in 1..Len(lc_found_) :
      /\ lc_found_[r].first = c_cluster_.id => lc_found_[r].second \notin CandidateIds
      /\ lc_found_[r].second = c_cluster_.id => lc_found_[r].first \notin CandidateIds

\* The search returned candidates, and left out a scanned entry whose id is
\* recorded as (that id, cluster_id).
C4_Witness ==
  /\ pc = "publish"
  /\ hash_matching # <<>>
  /\ \E r \in 1..Len(lc_found_), i \in Scanned :
       /\ lc_found_[r].second = c_cluster_.id
       /\ lc_found_[r].first # c_cluster_.id
       /\ hash_table_[i].first = lc_found_[r].first

\* C5: when a candidate of the current cluster is verifiable (its stored
\* cluster carries the current cluster's descriptors), one loop-closure record
\* for the pair and one graph edge exist once the search has returned.
C5_Verifiable(candidate) ==
  /\ store[candidate] # NoFile
  /\ store[candidate].sift = c_cluster_.sift
  /\ store[candidate].frame_id # c_cluster_.frame_id

C5_VerifiedCandidateRecorded ==
  (HashSearchDone /\ \E cand \in CandidateIds : C5_Verifiable(cand))
    => /\ \E r \in 1..Len(lc_found_) :
            /\ lc_found_[r].first = c_cluster_.id
            /\ lc_found_[r].second \in CandidateIds
       /\ Len(edges) = Len(lc_found_)

\* C6: the neighbourhood walk made for c_cluster_ matches no neighbour of
\* c_cluster_'s frame, and counts only the neighbours it matched.
C6_NoSameFrameNeighbor ==
  NeighborhoodDone =>
    /\ \A k \in 1..Len(visited) :
         visited[k].frame_id = c_cluster_.frame_id => ~visited[k].matched
    /\ processed_neighbors = Cardinality({k \in 1..Len(visited) : visited[k].matched})

\* The walk met a stored neighbour of the current cluster's frame.
C6_Witness ==
  /\ NeighborhoodDone
  /\ \E k \in 1..Len(visited) :
       visited[k].stored /\ visited[k].frame_id = c_cluster_.frame_id

\* C7: a table of LC_NEIGHBORS + 1 entries or fewer gives no candidate.
C7_ShortTableNoCandidates ==
  (pc = "publish" /\ Len(hash_table_) <= LC_NEIGHBORS + 1) => hash_matching = <<>>

\* The search returned over a table of exactly LC_NEIGHBORS + 1 entries whose
\* first entry is neither the cluster itself nor paired with it.
C7_Witness ==
  /\ pc = "publish"
  /\ Len(hash_table_) = LC_NEIGHBORS + 1
  /\ hash_table_[1].first # c_cluster_.id
  /\ hash_table_[1].first \notin NoCandidates(c_cluster_.id, lc_found_)

\* C8: when the candidate search runs, table position k holds cluster id k and
\* the current cluster's id is a position of the table.
C8_PositionIsId ==
  pc = "hash" =>
    /\ \A k \in 1..Len(hash_table_) : hash_table_[k].first = k - 1
    /\ QueryInBounds(c_cluster_.id, hash_table_)

\* C9: after a failed store write the failure is reported, and neither
\* neighbourhood verification nor candidate search runs on that cluster.
C9_WriteFailureStopsCluster ==
  ~write_ok =>
    /\ "FileStorage" \in error_log
    /\ pc # "neigh"
    /\ stages["neigh"] < Current
    /\ stages["hash"] < Current

\* C10: when the directory could not be created the loop is never entered and
\* no cluster is popped.
C10_NoDirectoryHalts ==
  "create_directory" \in error_log =>
    /\ pc \notin {"loop", "process", "neigh", "hash", "publish"}
    /\ hash_table_ = <<>>
    /\ Len(cluster_queue_) = Len(enqueued)

\* Keypoints, descriptor rows and 3-D points are parallel.
C11_WellFormed(cluster) == cluster.kp = cluster.rows /\ cluster.rows = cluster.points

\* C11: every hash-table entry comes from a cluster whose keypoint, descriptor
\* row and 3-D point counts are equal, and no match index used in neighbourhood
\* verification is past the end of kp or neighbor_points.
C11_MisshapenRejected ==
  /\ \A k \in 1..Len(hash_table_) : C11_WellFormed(enqueued[k])
  /\ ~matched.bad_index

\* C12: solvePnPRansac is never called with fewer than 4 pooled
\* correspondences.
C12_NoDegenerateEstimate ==
  matched # NoEstimate => matched.points >= 4

\* C13: while the consumer holds the queue mutex it is not publishing.
C13_NoPublishUnderLock ==
  mutex_cluster_queue_ = "run" => pc # "pub_queue"

\* C14: the hash table has one entry per popped cluster; a pop appends exactly
\* one (id, signature) pair of the popped cluster, and no other step changes
\* the table.
C14_AppendOnlyOnePerPop ==
  /\ [](Len(hash_table_) = Len(enqueued) - Len(cluster_queue_))
  /\ [][\/ hash_table_' = hash_table_ /\ Len(cluster_queue_') >= Len(cluster_queue_)
        \/ /\ cluster_queue_ # <<>>
           /\ cluster_queue_' = Tail(cluster_queue_)
           /\ \E signature \in Signatures :
                hash_table_' = Append(hash_table_,
                                      Pair(Head(cluster_queue_).id, signature))]_vars

\* Two clusters were popped, both stages ran on the second and finalize() ran.
C14_Witness ==
  /\ pc = "finalized"
  /\ Len(hash_table_) = 2
  /\ NeighborhoodDone
  /\ HashSearchDone

\* C15: with ids equal to table positions, every candidate returned for the
\* newest cluster c has an id of at most c - LC_NEIGHBORS - 1.
C15_NoCandidateInWindow ==
  (HashSearchDone /\ Current > 0) =>
    \A id \in CandidateIds : id <= c_cluster_.id - LC_NEIGHBORS - 1

\* A search with a window of at least one neighbour returned the newest entry
\* outside the window.
C15_Witness ==
  /\ HashSearchDone
  /\ Current > 0
  /\ LC_NEIGHBORS >= 1
  /\ c_cluster_.id - LC_NEIGHBORS - 1 \in CandidateIds

\* Table positions the search may return: outside the window of the last
\* LC_NEIGHBORS + 1 entries, not the cluster itself, not paired with it.
C16_Eligible ==
  {k \in 1..Len(hash_table_) :
     /\ k <= Len(hash_table_) - LC_NEIGHBORS - 1
     /\ hash_table_[k].first # c_cluster_.id
     /\ \A i \in 1..Len(lc_found_) :
          /\ ~(lc_found_[i].first = c_cluster_.id /\ lc_found_[i].second = hash_table_[k].first)
          /\ ~(lc_found_[i].second = c_cluster_.id /\ lc_found_[i].first = hash_table_[k].first)}
C16_Score(k) == match(hash_table_[c_cluster_.id + 1].second, hash_table_[k].second)

\* C16: the search returns at most 5 candidates, all of them when fewer than 5
\* entries are eligible; each is an eligible entry with its score; they are in
\* descending score order, equal scores by lower id; and no eligible entry left
\* out scores strictly higher than a returned one.
C16_BestFiveInOrder ==
  pc = "publish" =>
    /\ Len(hash_matching) <= 5
    /\ Len(hash_matching) = Min(5, Cardinality(C16_Eligible))
    /\ \A j \in 1..Len(hash_matching) :
         \E k \in C16_Eligible :
           hash_matching[j] = Pair(hash_table_[k].first, C16_Score(k))
    /\ \A i, j \in 1..Len(hash_matching) :
         i < j => \/ hash_matching[i].second > hash_matching[j].second
                  \/ /\ hash_matching[i].second = hash_matching[j].second
                     /\ hash_matching[i].first < hash_matching[j].first
    /\ \A k \in C16_Eligible :
         hash_table_[k].first \notin CandidateIds =>
           \A j \in 1..Len(hash_matching) : C16_Score(k) <= hash_matching[j].second

\* More than 5 entries were eligible, and the 5 returned hold a tie and two
\* different scores.
C16_Witness ==
  /\ pc = "publish"
  /\ Cardinality(C16_Eligible) > 5
  /\ Len(hash_matching) = 5
  /\ hash_matching[1].second > hash_matching[5].second
  /\ \E j \in 1..4 : hash_matching[j].second = hash_matching[j + 1].second

\* Reads of the walk, among the first n, of a cluster of another frame.
C17_Examined(n) ==
  {k \in 1..n : visited[k].frame_id # c_cluster_.frame_id}

\* C17: the walk for cluster c reads ids c-1, c-2, ... in this order and none
\* below 0; it counts exactly the neighbours of another frame; it has not gone
\* on after LC_NEIGHBORS of them, and it has stopped only with LC_NEIGHBORS
\* examined or id 0 read: at most c reads and at most LC_NEIGHBORS examined.
C17_WalkBounded ==
  (NeighborhoodDone /\ Current > 0) =>
    /\ \A k \in 1..Len(visited) :
         /\ visited[k].id = c_cluster_.id - k
         /\ visited[k].id >= 0
         /\ Cardinality(C17_Examined(k - 1)) < LC_NEIGHBORS
    /\ processed_neighbors = Cardinality(C17_Examined(Len(visited)))
    /\ processed_neighbors <= LC_NEIGHBORS
    /\ Len(visited) <= c_cluster_.id
    /\ processed_neighbors = LC_NEIGHBORS \/ Len(visited) = c_cluster_.id

\* The walk skipped a cluster of the current frame and went on to an older one.
C17_Witness ==
  /\ NeighborhoodDone
  /\ Current > 0
  /\ LC_NEIGHBORS = 1
  /\ Len(visited) = 2
  /\ visited[1].frame_id = c_cluster_.frame_id
  /\ processed_neighbors = 1

\* C18: the hash engine is initialised once, by the first cluster processed,
\* and never again; getHash and match are never evaluated on an uninitialised
\* engine.
C18_InitializedOnce ==
  /\ hash_use.inits = (IF Current > 0 THEN 1 ELSE 0)
  /\ Current > 0 => hash_ = [initialized |-> TRUE, basis |-> enqueued[1].sift]
  /\ Current = 0 => ~isInitialized(hash_)
  /\ ~hash_use.uninitialized

\* A second cluster of another appearance was processed and its search scored
\* an entry.
C18_Witness ==
  /\ Current = 2
  /\ enqueued[1].sift # enqueued[2].sift
  /\ HashSearchDone
  /\ hash_matching # <<>>

\* C19: the consumer is about to pop only when the queue is not empty.
C19_NoPopOnEmptyQueue ==
  pc = "process" => cluster_queue_ # <<>>

\* A pop was made while another cluster, pushed by a producer, stayed queued.
C19_Witness ==
  /\ pc = "neigh"
  /\ Current = 1
  /\ Len(cluster_queue_) = 1

\* Ids of the neighbours examined by the walk (clusters of another frame).
C20_ExaminedIds ==
  {visited[k].id : k \in {j \in 1..Len(visited) :
                            visited[j].frame_id # c_cluster_.frame_id}}

\* C20: for one processed cluster whose neighbours were all read from the
\* store, no examined neighbour is also a candidate of the hash search.
C20_NeighboursNotCandidates ==
  (/\ NeighborhoodDone
   /\ HashSearchDone
   /\ Current > 0
   /\ \A k \in 1..Len(visited) : visited[k].stored) =>
    C20_ExaminedIds \cap CandidateIds = {}

====
